---- MODULE Spec2Model ----
(***************************************************************************)
(* A model of server.js: the WhatsApp session lifecycle (initializeClient, *)
(* the engine event handlers, the retry timers) and the /send-order route. *)
(*                                                                         *)
(* JavaScript runs one callback at a time; a callback runs until its next  *)
(* await.  Every action below is one such run: a call of initializeClient  *)
(* up to its first await, the continuation after an await, an event        *)
(* handler, a timer callback, or an HTTP handler up to its first await.    *)
(***************************************************************************)
EXTENDS Naturals, Sequences, FiniteSets, Bags, TLC

\* ---------------------------------------------------------------- bounds
\* Connection handles that may exist (not yet fully destroyed) at once.
MaxClients == 2
\* initializeClient executions at once: suspended at an await, or due from
\* a pending setTimeout.
MaxProcs == 2
\* /send-order requests of one customer suspended inside safeSendMessage at
\* once.
MaxOrders == 1
\* Length of the texts formatPhoneNumber is tried on.
MaxLen == 4

\* ------------------------------------------------------------- constants
NULL == 0
\* the one-time code of a 'qr' event, whatever its text (server.js:137)
QrCode == 1
Handles == 1..MaxClients
\* reasons of a 'disconnected' event (server.js:174 names the first two)
Reasons == {"NAVIGATION", "LOGOUT", "CONFLICT"}
\* the characters \D does not match (server.js:323)
Digits == {"0", "1", "2", "3", "4", "5", "6", "7", "8", "9"}
\* a string is the sequence of its characters; "0775224728"
LocalNumber == <<"0", "7", "7", "5", "2", "2", "4", "7", "2", "8">>
\* a number already in international form; "256701"
OtherNumber == <<"2", "5", "6", "7", "0", "1">>
\* customerPhone of a request body: absent or empty (<< >>), two customers'
\* numbers, a text without digits ("ab")
Phones == {<< >>, LocalNumber, OtherNumber, <<"a", "b">>}
\* the two of them the readiness claims need: none, and a valid one
FewPhones == {<< >>, LocalNumber}
\* the characters of the texts formatPhoneNumber is tried on: a zero, another
\* digit, a non-digit
Alphabet == {"0", "7", "+"}
\* the arguments formatPhoneNumber is tried on
Numbers == UNION {[1..k -> Alphabet] : k \in 0..MaxLen} \cup {LocalNumber}
\* orderDetails of a request body: its line items in their order, and its
\* total when it supplies one (a set: empty when the property is absent)
Item(qty, price) == [qty |-> qty, price |-> price]
Details(items, total) == [items |-> items, total |-> total]
ItemLists == {<< >>, <<Item(2, 3)>>, <<Item(2, 3), Item(1, 5), Item(3, 1)>>}
OrderDetails == {Details(items, total) : items \in ItemLists, total \in {{}, {7}}}
\* the two of them the readiness claims need: without items, and with one
FewDetails == {Details(<< >>, {}), Details(<<Item(2, 3)>>, {})}
\* what the engine last announced for the handle stored in client
Phases == {"connecting", "awaitingScan", "ready", "authFailed",
           "disconnected"}
\* the callbacks given to setTimeout, by their delay: server.js:161-165
\* (after auth_failure), 177-180 (after a logout or navigation) and 184
\* (after any other disconnection)
Callbacks == {"t5000", "t3000", "t1000"}

VARIABLES
    MONGODB_URI,      \* TRUE iff process.env.MONGODB_URI is set
    client,           \* the global handle: NULL or a handle id
    latestQR,         \* NULL, or the code of the last 'qr' event
    isInitializing,
    isReady,
    handles,          \* the Client objects: "gone", "live" or "closing" (destroy() called)
    clientInfo,       \* TRUE iff client.info is set, for the handle stored in client
    phase,            \* the engine's last announcement for the handle stored in client
    mongoose,         \* mongoose.connection.readyState: 0, 1 (connected), 2 (connecting)
    sessionDir,       \* TRUE iff ./.wwebjs_auth exists
    storeRecord,      \* TRUE iff MongoDB holds the persisted session
    procs,            \* bag of suspended initializeClient executions
    timers,           \* bag of pending setTimeout callbacks
    orders,           \* bag of /send-order requests suspended in safeSendMessage
    response,         \* the HTTP response sent by the last step (NoResponse: none)
    sent,             \* the client.sendMessage call made by the last step (NoSend: none)
    process,          \* "loading" (module top level), "running" or "exited"
    console,          \* the last fault logged by the process handlers
    formatted         \* the last call formatPhoneNumber(number): <<number, result>>

vars == <<MONGODB_URI, client, latestQR, isInitializing, isReady, handles,
          clientInfo, phase, mongoose, sessionDir, storeRecord, procs, timers,
          orders, response, sent, process, console, formatted>>

\* ------------------------------------------------------------ helpers
Put(B, e) == B (+) SetToBag({e})
Take(B, e) == B (-) SetToBag({e})

\* a suspended initializeClient execution: where it waits, and for pc
\* "destroy" the handle whose destroy() it awaits
Proc(pc, h) == [pc |-> pc, h |-> h]
ProcStates == {Proc("connect", NULL), Proc("initialize", NULL),
               Proc("sleep", NULL)}
                 \cup {Proc("destroy", h) : h \in Handles}
\* formatPhoneNumber's null (server.js:322): no address at all; every
\* address ends in the channel suffix, so none is the empty sequence
NoAddress == << >>

\* formatPhoneNumber with line 324 putting the prefix in front of the number
\* as it is ('256' + number): the leading 0 stays.
formatPhoneNumberKeepsZero(number) ==
    IF number = << >>
    THEN NoAddress
    ELSE LET digits == SelectSeq(number, LAMBDA c : c \in Digits)
             prefixed == IF digits # << >> /\ Head(digits) = "0"
                         THEN <<"2", "5", "6">> \o digits
                         ELSE digits
         IN  Append(prefixed, "@c.us")

\* server.js:321-326: null for a falsy number; else the non-digits are
\* removed, one leading 0 becomes 256, and the suffix (one element here) is
\* appended.
formatPhoneNumber(number) ==
    IF number = << >>
    THEN NoAddress
    ELSE LET digits == SelectSeq(number, LAMBDA c : c \in Digits)
             prefixed == IF digits # << >> /\ Head(digits) = "0"
                         THEN <<"2", "5", "6">> \o Tail(digits)
                         ELSE digits
         IN  Append(prefixed, "@c.us")

\* a /send-order request suspended in safeSendMessage(client, recipient, ...)
Order(pc, customerPhone, recipient) ==
    [pc |-> pc, customerPhone |-> customerPhone, recipient |-> recipient]
OrderStates == {Order(pc, ph, formatPhoneNumber(ph)) :
                    pc \in {"send", "delay"}, ph \in Phones}
\* server.js:359: the text of the message.  JSON.stringify writes every
\* property of orderDetails that has a value, arrays in their order, and
\* omits an absent one: the text carries orderDetails as it came.
Message(orderDetails) == [header |-> "New Order from Kookee", body |-> orderDetails]
\* a call client.sendMessage(recipient, content) (server.js:330)
Send(recipient, message) == [recipient |-> recipient, message |-> message]
\* no call: every recipient of a call ends in the channel suffix
NoSend == Send(NoAddress, Message(Details(<< >>, {})))
\* requests of the customer with this phone that are inside safeSendMessage
InFlight(customerPhone) ==
    CopiesIn(Order("send", customerPhone, formatPhoneNumber(customerPhone)), orders)
        + CopiesIn(Order("delay", customerPhone, formatPhoneNumber(customerPhone)), orders)

\* an HTTP response of /send-order, with the request it answers
Response(status, customerPhone) ==
    [status |-> status, customerPhone |-> customerPhone]
NoResponse == Response(NULL, << >>)

\* handle ids that no Client object and no pending destroy() refer to
FreeIds(H, P) ==
    {n \in Handles : H[n] = "gone" /\ \A p \in BagToSet(P) : p.h # n}

Min(S) == CHOOSE n \in S : \A m \in S : n <= m

\* handles other than c that still exist or that a pending destroy() refers to
Strays(H, P, c) ==
    {n \in Handles \ {c} : H[n] # "gone" \/ \E p \in BagToSet(P) : p.h = n}

\* the model has room for the retry the handlers schedule
RoomForTimer == BagCardinality(procs) + BagCardinality(timers) < MaxProcs

\* callbacks run while the process does: after the module's top level has
\* run (server.js:397) and until the process exits
Running == process = "running"

\* a handle the engine may still emit events for
Emitting(h) == handles[h] \in {"live", "closing"}

\* ---------------------------------------------------- safeCleanupSessionDir
\* server.js:56-66: ./.wwebjs_auth does not exist afterwards.
safeCleanupSessionDir(dir) == FALSE

\* --------------------------------------------------- initializeClient
\* server.js:113-198: new Client, register the listeners, client.initialize();
\* the execution suspends at the await of line 198.
Construct(P, H) ==
    /\ FreeIds(H, P) # {}
    /\ LET n == Min(FreeIds(H, P)) IN
        /\ client' = n
        /\ handles' = [H EXCEPT ![n] = "live"]
    /\ clientInfo' = FALSE
    /\ phase' = "connecting"
    /\ procs' = Put(P, Proc("initialize", NULL))

\* server.js:94-105: safeCleanupSessionDir(), then mongoose.connect only if
\* readyState is 0 (the execution suspends there), else straight on to line 106.
\* The global client is null here (it was null at line 84, or line 91 ran).
AfterCleanup(P, H) ==
    /\ sessionDir' = safeCleanupSessionDir(sessionDir)
    /\ IF mongoose = 0
       THEN /\ mongoose' = 2
            /\ procs' = Put(P, Proc("connect", NULL))
            /\ client' = NULL
            /\ clientInfo' = FALSE
            /\ phase' = "connecting"
            /\ handles' = H
       ELSE /\ mongoose' = mongoose
            /\ Construct(P, H)

\* server.js:70-73: the guard of initializeClient.
Guarded == isInitializing

\* initializeClient without the check of lines 75-78: the setup starts
\* whether or not MONGODB_URI is set.
initializeClientNoUriCheck(P, dir) ==
    IF Guarded
    THEN /\ procs' = P
         /\ sessionDir' = dir
         /\ UNCHANGED <<client, isInitializing, handles, clientInfo, phase,
                        mongoose>>
    ELSE /\ isInitializing' = TRUE
         /\ IF client # NULL
            THEN /\ handles' = [handles EXCEPT ![client] = "closing"]
                 /\ procs' = Put(P, Proc("destroy", client))
                 /\ sessionDir' = dir
                 /\ UNCHANGED <<client, clientInfo, phase, mongoose>>
            ELSE AfterCleanup(P, handles)

\* server.js:69-92: a call of initializeClient() up to its first await.
\* P: the other suspended executions; dir: whether ./.wwebjs_auth exists at the call.
initializeClient(P, dir) ==
    IF Guarded \/ ~MONGODB_URI
    THEN /\ procs' = P
         /\ sessionDir' = dir
         /\ UNCHANGED <<client, isInitializing, handles, clientInfo, phase,
                        mongoose>>
    ELSE /\ isInitializing' = TRUE
         /\ IF client # NULL
            THEN /\ handles' = [handles EXCEPT ![client] = "closing"]
                 /\ procs' = Put(P, Proc("destroy", client))
                 /\ sessionDir' = dir
                 /\ UNCHANGED <<client, clientInfo, phase, mongoose>>
            ELSE AfterCleanup(P, handles)

\* Catch without the retry: the failure is handled and the execution ends.
CatchGivesUp(P) ==
    /\ isInitializing' = FALSE
    /\ sessionDir' = safeCleanupSessionDir(sessionDir)
    /\ procs' = P

\* server.js:200-207: the catch block up to await sleep(10000).
Catch(P) ==
    /\ isInitializing' = FALSE
    /\ sessionDir' = safeCleanupSessionDir(sessionDir)
    /\ procs' = Put(P, Proc("sleep", NULL))

\* DestroyDone without the inner try of lines 86-90: a rejected destroy()
\* reaches the catch block of line 200.
DestroyDoneThrows(p, ok) ==
    /\ Running
    /\ BagIn(p, procs) /\ p.pc = "destroy"
    /\ IF ok
       THEN /\ isInitializing' = isInitializing
            /\ AfterCleanup(Take(procs, p), [handles EXCEPT ![p.h] = "gone"])
       ELSE /\ Catch(Take(procs, p))
            /\ UNCHANGED <<client, clientInfo, phase, handles, mongoose>>
    /\ Cardinality(Strays(handles', procs', client')) < MaxClients
    /\ response' = NoResponse
    /\ sent' = NoSend
    /\ UNCHANGED <<MONGODB_URI, process, console, formatted, latestQR, isReady, storeRecord, timers, orders>>

\* server.js:87-105: client.destroy() settled; a rejection is swallowed
\* (88-90) and leaves the handle as it is.
DestroyDone(p, ok) ==
    /\ Running
    /\ BagIn(p, procs) /\ p.pc = "destroy"
    /\ isInitializing' = isInitializing
    /\ AfterCleanup(Take(procs, p),
                    IF ok THEN [handles EXCEPT ![p.h] = "gone"] ELSE handles)
    /\ Cardinality(Strays(handles', procs', client')) < MaxClients
    /\ response' = NoResponse
    /\ sent' = NoSend
    /\ UNCHANGED <<MONGODB_URI, process, console, formatted, latestQR, isReady, storeRecord, timers, orders>>

\* server.js:101-198: mongoose.connect resolved.
ConnectDone(p) ==
    /\ Running
    /\ BagIn(p, procs) /\ p.pc = "connect"
    /\ mongoose' = 1
    /\ Construct(Take(procs, p), handles)
    /\ response' = NoResponse
    /\ sent' = NoSend
    /\ UNCHANGED <<MONGODB_URI, process, console, formatted, latestQR, isInitializing, isReady, sessionDir,
                   storeRecord, timers, orders>>

\* server.js:101, 200-207: mongoose.connect rejected.
ConnectFailed(p) ==
    /\ Running
    /\ BagIn(p, procs) /\ p.pc = "connect"
    /\ mongoose' = 0
    /\ Catch(Take(procs, p))
    /\ response' = NoResponse
    /\ sent' = NoSend
    /\ UNCHANGED <<MONGODB_URI, process, console, formatted, client, latestQR, isReady, handles, clientInfo,
                   phase, storeRecord, timers, orders>>

\* server.js:198-210: client.initialize() resolved; the function returns.
InitializeResolved(p) ==
    /\ Running
    /\ BagIn(p, procs) /\ p.pc = "initialize"
    /\ procs' = Take(procs, p)
    /\ response' = NoResponse
    /\ sent' = NoSend
    /\ UNCHANGED <<MONGODB_URI, process, console, formatted, client, latestQR, isInitializing, isReady,
                   handles, clientInfo, phase, mongoose, sessionDir,
                   storeRecord, timers, orders>>

\* server.js:198, 200-207: client.initialize() rejected.
InitializeRejected(p) ==
    /\ Running
    /\ BagIn(p, procs) /\ p.pc = "initialize"
    /\ Catch(Take(procs, p))
    /\ response' = NoResponse
    /\ sent' = NoSend
    /\ UNCHANGED <<MONGODB_URI, process, console, formatted, client, latestQR, isReady, handles, clientInfo,
                   phase, mongoose, storeRecord, timers, orders>>

\* server.js:207-208: sleep(10000) over, initializeClient() called again.
SleepDone(p) ==
    /\ Running
    /\ BagIn(p, procs) /\ p.pc = "sleep"
    /\ initializeClient(Take(procs, p), sessionDir)
    /\ response' = NoResponse
    /\ sent' = NoSend
    /\ UNCHANGED <<MONGODB_URI, process, console, formatted, latestQR, isReady, storeRecord, timers, orders>>

\* ------------------------------------------------------- timer callbacks
\* server.js:161-165 (after auth_failure), 177-180 and 184 (after
\* disconnected): the callback calls initializeClient(); the first one calls
\* safeCleanupSessionDir() before it.
TimerFire(k) ==
    /\ Running
    /\ BagIn(k, timers)
    /\ timers' = Take(timers, k)
    /\ initializeClient(procs, IF k = "t5000"
                               THEN safeCleanupSessionDir(sessionDir)
                               ELSE sessionDir)
    /\ response' = NoResponse
    /\ sent' = NoSend
    /\ UNCHANGED <<MONGODB_URI, process, console, formatted, latestQR, isReady, storeRecord, orders>>

\* ------------------------------------------------------- engine events
\* the engine's announcement is about the handle stored in client
Announce(h, ph) ==
    phase' = IF h = client THEN ph ELSE phase

\* OnQr without line 138: isReady is left as it is.
OnQrKeepsReady(h) ==
    /\ Running
    /\ Emitting(h)
    /\ Announce(h, "awaitingScan")
    /\ latestQR' = QrCode
    /\ isReady' = isReady
    /\ response' = NoResponse
    /\ sent' = NoSend
    /\ UNCHANGED <<MONGODB_URI, process, console, formatted, client, isInitializing, handles, clientInfo,
                   mongoose, sessionDir, storeRecord, procs, timers, orders>>

\* server.js:136-142: client.on('qr').
OnQr(h) ==
    /\ Running
    /\ Emitting(h)
    /\ Announce(h, "awaitingScan")
    /\ latestQR' = QrCode
    /\ isReady' = FALSE
    /\ response' = NoResponse
    /\ sent' = NoSend
    /\ UNCHANGED <<MONGODB_URI, process, console, formatted, client, isInitializing, handles, clientInfo,
                   mongoose, sessionDir, storeRecord, procs, timers, orders>>

\* server.js:144-146: client.on('authenticated') only logs.
OnAuthenticated(h) ==
    /\ Running
    /\ Emitting(h)
    /\ response' = NoResponse
    /\ sent' = NoSend
    /\ UNCHANGED <<MONGODB_URI, process, console, formatted, client, latestQR, isInitializing, isReady,
                   handles, clientInfo, phase, mongoose, sessionDir,
                   storeRecord, procs, timers, orders>>

\* OnReady without line 153: isInitializing is left as it is.
OnReadyKeepsGuard(h) ==
    /\ Running
    /\ Emitting(h)
    /\ Announce(h, "ready")
    /\ clientInfo' = (clientInfo \/ h = client)
    /\ IF client # NULL /\ clientInfo'
       THEN /\ latestQR' = NULL
            /\ isReady' = TRUE
       ELSE UNCHANGED <<latestQR, isReady>>
    /\ isInitializing' = isInitializing
    /\ response' = NoResponse
    /\ sent' = NoSend
    /\ UNCHANGED <<MONGODB_URI, process, console, formatted, client, handles, mongoose, sessionDir,
                   storeRecord, procs, timers, orders>>

\* server.js:148-154: client.on('ready').  The engine sets the emitting
\* handle's info before it emits; line 150 reads the GLOBAL client's info and
\* throws a TypeError, before any assignment, when that is null or has no info.
OnReady(h) ==
    /\ Running
    /\ Emitting(h)
    /\ Announce(h, "ready")
    /\ clientInfo' = (clientInfo \/ h = client)
    /\ IF client # NULL /\ clientInfo'
       THEN /\ latestQR' = NULL
            /\ isReady' = TRUE
            /\ isInitializing' = FALSE
       ELSE UNCHANGED <<latestQR, isReady, isInitializing>>
    /\ response' = NoResponse
    /\ sent' = NoSend
    /\ UNCHANGED <<MONGODB_URI, process, console, formatted, client, handles, mongoose, sessionDir,
                   storeRecord, procs, timers, orders>>

\* server.js:156-166: client.on('auth_failure').
OnAuthFailure(h) ==
    /\ Running
    /\ Emitting(h)
    /\ RoomForTimer
    /\ Announce(h, "authFailed")
    /\ isInitializing' = FALSE
    /\ isReady' = FALSE
    /\ timers' = Put(timers, "t5000")
    /\ response' = NoResponse
    /\ sent' = NoSend
    /\ UNCHANGED <<MONGODB_URI, process, console, formatted, client, latestQR, handles, clientInfo, mongoose,
                   sessionDir, storeRecord, procs, orders>>

\* OnDisconnected that reconnects after a logout or navigation only: any
\* other reason schedules nothing.
OnDisconnectedNoRetry(h, reason) ==
    /\ Running
    /\ Emitting(h)
    /\ RoomForTimer
    /\ Announce(h, "disconnected")
    /\ isInitializing' = FALSE
    /\ isReady' = FALSE
    /\ IF reason = "NAVIGATION" \/ reason = "LOGOUT"
       THEN /\ sessionDir' = safeCleanupSessionDir(sessionDir)
            /\ timers' = Put(timers, "t3000")
       ELSE /\ sessionDir' = sessionDir
            /\ timers' = timers
    /\ response' = NoResponse
    /\ sent' = NoSend
    /\ UNCHANGED <<MONGODB_URI, process, console, formatted, client, latestQR, handles, clientInfo, mongoose,
                   storeRecord, procs, orders>>

\* OnDisconnected without line 176: ./.wwebjs_auth is left in place.
OnDisconnectedKeepsDir(h, reason) ==
    /\ Running
    /\ Emitting(h)
    /\ RoomForTimer
    /\ Announce(h, "disconnected")
    /\ isInitializing' = FALSE
    /\ isReady' = FALSE
    /\ sessionDir' = sessionDir
    /\ timers' = Put(timers, IF reason = "NAVIGATION" \/ reason = "LOGOUT"
                             THEN "t3000" ELSE "t1000")
    /\ response' = NoResponse
    /\ sent' = NoSend
    /\ UNCHANGED <<MONGODB_URI, process, console, formatted, client, latestQR, handles, clientInfo, mongoose,
                   storeRecord, procs, orders>>

\* server.js:168-186: client.on('disconnected').
OnDisconnected(h, reason) ==
    /\ Running
    /\ Emitting(h)
    /\ RoomForTimer
    /\ Announce(h, "disconnected")
    /\ isInitializing' = FALSE
    /\ isReady' = FALSE
    /\ IF reason = "NAVIGATION" \/ reason = "LOGOUT"
       THEN /\ sessionDir' = safeCleanupSessionDir(sessionDir)
            /\ timers' = Put(timers, "t3000")
       ELSE /\ sessionDir' = sessionDir
            /\ timers' = Put(timers, "t1000")
    /\ response' = NoResponse
    /\ sent' = NoSend
    /\ UNCHANGED <<MONGODB_URI, process, console, formatted, client, latestQR, handles, clientInfo, mongoose,
                   storeRecord, procs, orders>>

\* server.js:188-190: 'remote_session_saved': RemoteAuth has written the
\* session to MongoDB (server.js:114-118); the listener only logs.
OnRemoteSessionSaved(h) ==
    /\ Running
    /\ Emitting(h)
    /\ mongoose = 1
    /\ storeRecord' = TRUE
    /\ response' = NoResponse
    /\ sent' = NoSend
    /\ UNCHANGED <<MONGODB_URI, process, console, formatted, client, latestQR, isInitializing, isReady,
                   handles, clientInfo, phase, mongoose, sessionDir, procs,
                   timers, orders>>

\* RemoteAuth (server.js:114-118) keeps the live session's files under
\* ./.wwebjs_auth, the directory safeCleanupSessionDir removes (57-60).
EngineWritesSessionDir(h) ==
    /\ Running
    /\ Emitting(h)
    /\ sessionDir' = TRUE
    /\ response' = NoResponse
    /\ sent' = NoSend
    /\ UNCHANGED <<MONGODB_URI, process, console, formatted, client, latestQR, isInitializing, isReady,
                   handles, clientInfo, phase, mongoose, storeRecord, procs,
                   timers, orders>>

\* ---------------------------------------------------------- /send-order
\* server.js:342: the handler's readiness check passes.
Ready == isReady /\ client # NULL /\ clientInfo

\* SendOrder with the two checks in the other order: customerPhone is looked
\* at before the session is.
SendOrderValidatesFirst(customerPhone, orderDetails) ==
    /\ Running
    /\ IF customerPhone = << >>
       THEN /\ response' = Response(400, customerPhone)
            /\ orders' = orders
            /\ sent' = NoSend
       ELSE IF ~Ready
       THEN /\ response' = Response(503, customerPhone)
            /\ orders' = orders
            /\ sent' = NoSend
       ELSE /\ InFlight(customerPhone) < MaxOrders
            /\ orders' = Put(orders, Order("send", customerPhone,
                                           formatPhoneNumber(customerPhone)))
            /\ sent' = Send(formatPhoneNumber(customerPhone),
                            Message(orderDetails))
            /\ response' = NoResponse
    /\ UNCHANGED <<MONGODB_URI, process, console, formatted, client, latestQR, isInitializing, isReady,
                   handles, clientInfo, phase, mongoose, sessionDir,
                   storeRecord, procs, timers>>

\* server.js:340-361 and 328-330: the handler up to the await of
\* client.sendMessage inside safeSendMessage.  orderDetails only goes into
\* the text of the message (line 359): no branch reads it.  The model
\* holds at most MaxOrders requests of one customer inside safeSendMessage.
SendOrder(customerPhone, orderDetails) ==
    /\ Running
    /\ IF ~Ready
       THEN /\ response' = Response(503, customerPhone)
            /\ orders' = orders
            /\ sent' = NoSend
       ELSE IF customerPhone = << >>
       THEN /\ response' = Response(400, customerPhone)
            /\ orders' = orders
            /\ sent' = NoSend
       ELSE /\ InFlight(customerPhone) < MaxOrders
            /\ orders' = Put(orders, Order("send", customerPhone,
                                           formatPhoneNumber(customerPhone)))
            /\ sent' = Send(formatPhoneNumber(customerPhone),
                            Message(orderDetails))
            /\ response' = NoResponse
    /\ UNCHANGED <<MONGODB_URI, process, console, formatted, client, latestQR, isInitializing, isReady,
                   handles, clientInfo, phase, mongoose, sessionDir,
                   storeRecord, procs, timers>>

\* server.js:330-332: sendMessage resolved; safeSendMessage sleeps 800 ms.
SendResolved(o) ==
    /\ Running
    /\ BagIn(o, orders) /\ o.pc = "send"
    /\ orders' = Put(Take(orders, o),
                     Order("delay", o.customerPhone, o.recipient))
    /\ response' = NoResponse
    /\ sent' = NoSend
    /\ UNCHANGED <<MONGODB_URI, process, console, formatted, client, latestQR, isInitializing, isReady,
                   handles, clientInfo, phase, mongoose, sessionDir,
                   storeRecord, procs, timers>>

\* server.js:333-335 and 368-373: sendMessage rejected; safeSendMessage
\* rethrows and the handler answers 500.
SendRejected(o) ==
    /\ Running
    /\ BagIn(o, orders) /\ o.pc = "send"
    /\ orders' = Take(orders, o)
    /\ response' = Response(500, o.customerPhone)
    /\ sent' = NoSend
    /\ UNCHANGED <<MONGODB_URI, process, console, formatted, client, latestQR, isInitializing, isReady,
                   handles, clientInfo, phase, mongoose, sessionDir,
                   storeRecord, procs, timers>>

\* server.js:332, 363-367: the 800 ms are over; the handler answers 200.
DelayDone(o) ==
    /\ Running
    /\ BagIn(o, orders) /\ o.pc = "delay"
    /\ orders' = Take(orders, o)
    /\ response' = Response(200, o.customerPhone)
    /\ sent' = NoSend
    /\ UNCHANGED <<MONGODB_URI, process, console, formatted, client, latestQR, isInitializing, isReady,
                   handles, clientInfo, phase, mongoose, sessionDir,
                   storeRecord, procs, timers>>

\* server.js:321-326 called on its own: formatPhoneNumber(number).
CallFormatPhoneNumber(number) ==
    /\ Running
    /\ formatted' = <<number, formatPhoneNumber(number)>>
    /\ response' = NoResponse
    /\ sent' = NoSend
    /\ UNCHANGED <<process, console, orders, MONGODB_URI, client, latestQR, isInitializing, isReady,
                   handles, clientInfo, phase, mongoose, sessionDir,
                   storeRecord, procs, timers>>

\* ------------------------------------------------------------------ /qr
\* a page of GET /qr: its status, which page it is, and the code it shows
Page(status, page, qr) == [status |-> status, page |-> page, qr |-> qr]
PageStates ==
    {Page(200, "connected", NULL), Page(404, "waiting", NULL),
     Page(200, "challenge", QrCode)}

\* GetQr with the readiness test of the earlier revision of the route: the
\* handle has an identity (client && client.info?.wid) instead of isReady.
GetQrByIdentity ==
    /\ Running
    /\ response' = IF latestQR = NULL /\ client # NULL /\ clientInfo
                   THEN Page(200, "connected", NULL)
                   ELSE IF latestQR = NULL
                   THEN Page(404, "waiting", NULL)
                   ELSE Page(200, "challenge", latestQR)
    /\ sent' = NoSend
    /\ UNCHANGED <<process, console, formatted, orders, MONGODB_URI, client, latestQR, isInitializing, isReady,
                   handles, clientInfo, phase, mongoose, sessionDir,
                   storeRecord, procs, timers>>

\* server.js:235-299: GET /qr.  The page is decided by what the handler reads
\* before its await of QRCode.toDataURL(latestQR) (line 276), which encodes
\* the code the engine issued; the answer is recorded in that same step.
GetQr ==
    /\ Running
    /\ response' = IF isReady /\ latestQR = NULL
                   THEN Page(200, "connected", NULL)
                   ELSE IF latestQR = NULL
                   THEN Page(404, "waiting", NULL)
                   ELSE Page(200, "challenge", latestQR)
    /\ sent' = NoSend
    /\ UNCHANGED <<process, console, formatted, orders, MONGODB_URI, client, latestQR, isInitializing, isReady,
                   handles, clientInfo, phase, mongoose, sessionDir,
                   storeRecord, procs, timers>>

\* ---------------------------------------------------- process handlers
\* the phrases the handlers look for in a message (server.js:31-35, 45-47)
Phrases == {"Execution context was destroyed", "Target closed",
            "Session closed", "Protocol error", "ENOENT", ".wwebjs_auth"}

\* a rejection reason or thrown value: null or undefined ("null"), a value
\* whose message is absent or empty ("plain": a string, an object, an Error
\* without text), or a value with a message ("error"), of which the model
\* keeps the phrases it contains (none: some other text)
Fault(kind, message) == [kind |-> kind, message |-> message]
Messages == {{}} \cup {{ph} : ph \in Phrases} \cup {{"ENOENT", ".wwebjs_auth"}}
Faults == {Fault("null", {}), Fault("plain", {})}
              \cup {Fault("error", m) : m \in Messages}

\* message.includes(phrase)
includes(message, phrase) == phrase \in message

\* the TypeError of reading .message of null or undefined
TypeError == Fault("error", {})

\* what a handler logs: console.warn or console.error, the handler (event)
\* that logged, and the fault it was given
Log(level, event, fault) == [level |-> level, event |-> event, fault |-> fault]
NoLog == Log("none", "none", Fault("null", {}))

\* server.js:43-53: the 'uncaughtException' handler, as the pair of what it
\* logs and what becomes of the process.  Line 44 reads error.message: for
\* null or undefined that throws inside the handler, and a throwing
\* 'uncaughtException' handler ends the process: Node prints the TypeError
\* and exits with code 7.
uncaughtException(error) ==
    IF error.kind = "null"
    THEN <<Log("error", "uncaughtException", error), "exited">>
    ELSE IF /\ error.kind = "error"
            /\ \/ includes(error.message, "ENOENT")
                    /\ includes(error.message, ".wwebjs_auth")
               \/ includes(error.message, "Target closed")
               \/ includes(error.message, "Protocol error")
    THEN <<Log("warn", "uncaughtException", error), process>>
    ELSE <<Log("error", "uncaughtException", error), process>>

\* server.js:28-41: the 'unhandledRejection' handler, likewise.  For a null
\* or undefined reason line 40 reads reason.message and throws; what a
\* handler throws is an uncaught exception and goes to the handler above.
unhandledRejection(reason) ==
    IF /\ reason.kind = "error"
       /\ \/ includes(reason.message, "Execution context was destroyed")
          \/ includes(reason.message, "Target closed")
          \/ includes(reason.message, "Session closed")
          \/ includes(reason.message, "Protocol error")
          \/ includes(reason.message, "ENOENT")
                /\ includes(reason.message, ".wwebjs_auth")
    THEN <<Log("warn", "unhandledRejection", reason), process>>
    ELSE IF reason.kind = "null"
    THEN uncaughtException(TypeError)
    ELSE <<Log("error", "unhandledRejection", reason), process>>

\* a promise is rejected with no handler attached
UnhandledRejection(reason) ==
    /\ Running
    /\ console' = unhandledRejection(reason)[1]
    /\ process' = unhandledRejection(reason)[2]
    /\ response' = NoResponse
    /\ sent' = NoSend
    /\ UNCHANGED <<formatted, orders, MONGODB_URI, client, latestQR, isInitializing, isReady,
                   handles, clientInfo, phase, mongoose, sessionDir,
                   storeRecord, procs, timers>>

\* a value is thrown and nothing catches it
UncaughtException(error) ==
    /\ Running
    /\ console' = uncaughtException(error)[1]
    /\ process' = uncaughtException(error)[2]
    /\ response' = NoResponse
    /\ sent' = NoSend
    /\ UNCHANGED <<formatted, orders, MONGODB_URI, client, latestQR, isInitializing, isReady,
                   handles, clientInfo, phase, mongoose, sessionDir,
                   storeRecord, procs, timers>>

\* ------------------------------------------------------- specification
\* server.js:21-25: the globals as the module declares them, before its last
\* statement (line 397) has run, on a fresh deployment (no session persisted
\* yet; ./.wwebjs_auth may be left over from an earlier run).
Init ==
    /\ MONGODB_URI \in BOOLEAN
    /\ client = NULL
    /\ latestQR = NULL
    /\ isInitializing = FALSE
    /\ isReady = FALSE
    /\ handles = [n \in Handles |-> "gone"]
    /\ clientInfo = FALSE
    /\ phase = "connecting"
    /\ mongoose = 0
    /\ sessionDir \in BOOLEAN
    /\ storeRecord = FALSE
    /\ procs = EmptyBag
    /\ timers = EmptyBag
    /\ orders = EmptyBag
    /\ response = NoResponse
    /\ sent = NoSend
    /\ process = "loading"
    /\ console = NoLog
    /\ formatted = <<<< >>, NoAddress>>

\* server.js:397: the first call of initializeClient(), up to its first
\* await; the server answers requests from then on (line 390).
Start ==
    /\ process = "loading"
    /\ process' = "running"
    /\ initializeClient(procs, sessionDir)
    /\ response' = NoResponse
    /\ sent' = NoSend
    /\ UNCHANGED <<MONGODB_URI, console, formatted, latestQR, isReady,
                   storeRecord, timers, orders>>

\* initializeClient, the timers and the engine's lifecycle events
Lifecycle ==
    \/ Start
    \/ \E p \in ProcStates, ok \in BOOLEAN : DestroyDone(p, ok)
    \/ \E p \in ProcStates : ConnectDone(p)
    \/ \E p \in ProcStates : ConnectFailed(p)
    \/ \E p \in ProcStates : InitializeResolved(p)
    \/ \E p \in ProcStates : InitializeRejected(p)
    \/ \E p \in ProcStates : SleepDone(p)
    \/ \E k \in Callbacks : TimerFire(k)
    \/ \E h \in Handles : OnQr(h)
    \/ \E h \in Handles : OnAuthenticated(h)
    \/ \E h \in Handles : OnReady(h)
    \/ \E h \in Handles : OnAuthFailure(h)
    \/ \E h \in Handles, reason \in Reasons : OnDisconnected(h, reason)

\* the /send-order route, for requests without a phone or with a valid one
Http ==
    \/ \E customerPhone \in FewPhones, orderDetails \in FewDetails :
          SendOrder(customerPhone, orderDetails)
    \/ \E o \in OrderStates : SendResolved(o)
    \/ \E o \in OrderStates : SendRejected(o)
    \/ \E o \in OrderStates : DelayDone(o)

\* the /send-order route, for every request body
Dispatch ==
    \/ \E customerPhone \in Phones, orderDetails \in OrderDetails :
          SendOrder(customerPhone, orderDetails)
    \/ \E o \in OrderStates : SendResolved(o)
    \/ \E o \in OrderStates : SendRejected(o)
    \/ \E o \in OrderStates : DelayDone(o)

\* what RemoteAuth writes
Storage ==
    \/ \E h \in Handles : OnRemoteSessionSaved(h)
    \/ \E h \in Handles : EngineWritesSessionDir(h)

\* the /qr route
Pages == GetQr

\* faults outside any call chain, on either channel
Containment ==
    \/ \E reason \in Faults : UnhandledRejection(reason)
    \/ \E error \in Faults : UncaughtException(error)

\* formatPhoneNumber on its own
Formatting == \E number \in Numbers : CallFormatPhoneNumber(number)

Next == Lifecycle \/ Dispatch \/ Storage \/ Pages \/ Containment

\* The whole program.
Spec == Init /\ [][Next]_vars

\* The Http and Dispatch steps change orders, response and sent alone, the
\* Pages steps response alone, the Formatting steps formatted alone and the Storage
\* steps sessionDir and storeRecord alone; no Lifecycle step reads orders,
\* response, sent, formatted or storeRecord, and sessionDir is only ever
\* overwritten.  So the session behaves in the specifications below as it
\* does in Spec for as long as the process runs, and each route behaves in
\* its specification as in Spec.  Only a Containment step can end the
\* process, which the other specifications leave out: they describe the
\* program for as long as it runs.
SpecSession == Init /\ [][Lifecycle]_vars
SpecSend == Init /\ [][Lifecycle \/ Http]_vars
SpecDispatch == Init /\ [][Lifecycle \/ Dispatch]_vars
SpecStore == Init /\ [][Lifecycle \/ Storage]_vars
SpecPages == Init /\ [][Lifecycle \/ Pages]_vars
SpecFaults == Init /\ [][Lifecycle \/ Containment]_vars

\* formatPhoneNumber reads its argument alone
SpecFormat == Init /\ [][Start \/ Formatting]_vars

\* Node runs a timer's callback once its delay is over, and sleep(10000)
\* (server.js:319) is such a timer: a due callback is not postponed forever.
FairSession ==
    /\ SpecSession
    /\ WF_vars(\E k \in Callbacks : TimerFire(k))
    /\ WF_vars(\E p \in ProcStates : SleepDone(p))

TypeOK ==
    /\ MONGODB_URI \in BOOLEAN
    /\ client \in Handles \cup {NULL}
    /\ latestQR \in {NULL, QrCode}
    /\ isInitializing \in BOOLEAN /\ isReady \in BOOLEAN
    /\ handles \in [Handles -> {"gone", "live", "closing"}]
    /\ clientInfo \in BOOLEAN
    /\ phase \in Phases
    /\ mongoose \in {0, 1, 2}
    /\ sessionDir \in BOOLEAN /\ storeRecord \in BOOLEAN
    /\ BagToSet(procs) \subseteq ProcStates
    /\ BagToSet(orders) \subseteq OrderStates
    /\ BagToSet(timers) \subseteq Callbacks
    /\ response \in {NoResponse}
          \cup {Response(st, ph) : st \in {200, 400, 500, 503}, ph \in Phones}
          \cup PageStates
    /\ process \in {"loading", "running", "exited"}
    /\ console \in {NoLog}
          \cup {Log(lv, ev, f) : lv \in {"warn", "error"},
                                 ev \in {"unhandledRejection", "uncaughtException"},
                                 f \in Faults}
    /\ formatted[1] \in Numbers
    /\ BagCardinality(procs) + BagCardinality(timers) <= MaxProcs
    /\ \A ph \in Phones : InFlight(ph) <= MaxOrders
    /\ sent \in {NoSend}
          \cup {Send(formatPhoneNumber(ph), Message(od)) :
                    ph \in Phones \ {<< >>}, od \in OrderDetails}
    /\ \/ client = NULL
       \/ Cardinality(Strays(handles, procs, client)) < MaxClients

\* ------------------------------------------------------------- claims
\* initializeClient executions inside their setup sequence: past line 80 and
\* not yet past the await of client.initialize() (line 198)
SetupCount == BagCardinality(procs) - CopiesIn(Proc("sleep", NULL), procs)

\* a step that is a call of initializeClient(): from a timer callback, or
\* from the catch block after its sleep
CallStep == (\E k \in Callbacks : TimerFire(k)) \/ (\E p \in ProcStates : SleepDone(p))

\* a step in which /send-order invokes client.sendMessage
SendStep ==
    \E ph \in Phones, od \in OrderDetails : SendOrder(ph, od) /\ orders' # orders

\* C1: a /send-order request handled while the session is not Ready is
\* answered 503, whatever its body; it starts no send and leaves client,
\* latestQR, isInitializing and isReady as they are.
C1_NotReadyAnswers503 ==
    [][\A ph \in FewPhones, od \in FewDetails :
          (SendOrder(ph, od) /\ ~Ready) =>
              /\ response' = Response(503, ph)
              /\ orders' = orders
              /\ UNCHANGED <<client, latestQR, isInitializing, isReady>>]_vars

\* a request with a valid body has just been answered 503 by a session that
\* is not Ready
C1_Witness ==
    /\ response = Response(503, LocalNumber)
    /\ client # NULL /\ ~isReady
    /\ orders = EmptyBag

\* C2: client.sendMessage is never invoked while isInitializing is true, nor
\* on a handle whose destroy() initializeClient has called.
C2_SendsOnlyFromReady ==
    [][SendStep => (~isInitializing /\ handles[client] = "live")]_vars

\* C3: at most one initializeClient execution is inside its setup sequence.
C3_AtMostOneSetup == SetupCount <= 1

\* C4: a call of initializeClient made while another execution is inside its
\* setup sequence returns at once: it starts no setup of its own and changes
\* none of client, latestQR, isReady, isInitializing, nor any handle.
C4_SecondCallIsNoOp ==
    [][(CallStep /\ SetupCount >= 1) =>
          /\ SetupCount' <= SetupCount
          /\ UNCHANGED <<client, latestQR, isReady, isInitializing, handles>>]_vars

\* C5: at most one connection handle is live (constructed, and destroy() not
\* yet called on it) at any time.
C5_AtMostOneLive == Cardinality({h \in Handles : handles[h] = "live"}) <= 1

\* a retry scheduled by the 'disconnected' handler is pending
ReconnectDue == BagIn("t3000", timers) \/ BagIn("t1000", timers)

Sleeping == BagIn(Proc("sleep", NULL), procs)

\* a step in which the setup sequence throws
SetupThrows ==
    \E p \in ProcStates : ConnectFailed(p) \/ InitializeRejected(p)

\* C7: when the setup sequence throws, the guard is cleared and the execution
\* sleeps; when the sleep is over it calls initializeClient again, which
\* begins a new setup unless one has begun meanwhile; no failure is the last:
\* after every one a setup is in flight again.
C7_FailureLeadsToRetry ==
    /\ [][SetupThrows =>
             /\ ~isInitializing'
             /\ CopiesIn(Proc("sleep", NULL), procs')
                    = CopiesIn(Proc("sleep", NULL), procs) + 1]_vars
    /\ [][(\E p \in ProcStates : SleepDone(p)) =>
             /\ isInitializing'
             /\ CopiesIn(Proc("sleep", NULL), procs')
                    = CopiesIn(Proc("sleep", NULL), procs) - 1
             /\ (~isInitializing => SetupCount' = SetupCount + 1)]_vars
    /\ (Sleeping ~> isInitializing)

\* client.initialize() was rejected and the execution sleeps, guard cleared
C7_Witness ==
    /\ Sleeping
    /\ ~isInitializing
    /\ client # NULL /\ handles[client] = "live"

\* C8: latestQR is non-null only while the current connection awaits its scan.
C8_QrOnlyWhileAwaitingScan ==
    latestQR # NULL => (client # NULL /\ phase = "awaitingScan")

\* C9: a 'qr' event of the current handle leaves the session awaiting scan
\* with a code stored and not Ready; a 'ready' event of the current handle
\* leaves it Ready with no code stored and no initialization marked in flight.
C9_QrThenReady ==
    [][\A h \in Handles :
          /\ (OnQr(h) /\ h = client) =>
                 /\ phase' = "awaitingScan"
                 /\ latestQR' # NULL
                 /\ ~Ready'
          /\ (OnReady(h) /\ h = client) =>
                 /\ phase' = "ready"
                 /\ Ready'
                 /\ latestQR' = NULL
                 /\ ~isInitializing']_vars

\* the first connection is Ready after its setup returned: no code stored,
\* nothing in flight
C9_Witness ==
    /\ phase = "ready"
    /\ Ready
    /\ latestQR = NULL
    /\ ~isInitializing
    /\ procs = EmptyBag /\ timers = EmptyBag

\* a 'disconnected' event with a logout or navigation reason, received by
\* the current handle of a Ready session
LogoutOfReady(h, reason) ==
    /\ reason \in {"LOGOUT", "NAVIGATION"}
    /\ Ready /\ h = client
    /\ OnDisconnected(h, reason)

C11_InvalidOrderAnswers400 ==
    [][\A ph \in FewPhones, od \in FewDetails :
          (SendOrder(ph, od) /\ (ph = << >> \/ od.items = << >>)) =>
              /\ response' = Response(400, ph)
              /\ orders' = orders
              /\ UNCHANGED <<client, latestQR, isInitializing, isReady>>]_vars

\* C12: a send that fails does not fail the dispatch: the request is still
\* answered with the success result.
C12_FailedSendStillSucceeds ==
    [][\A o \in OrderStates :
          SendRejected(o) => response' = Response(200, o.customerPhone)]_vars

\* C13: after every send attempt, resolved or rejected, the request waits
\* the inter-send delay before anything else is done for it.
C13_DelayAfterEveryAttempt ==
    [][\A o \in OrderStates :
          (SendResolved(o) \/ SendRejected(o)) =>
              BagIn(Order("delay", o.customerPhone, o.recipient), orders')]_vars

\* the fixed business-operator address of the configuration the design
\* lists; server.js defines none
OperatorAddress == <<"2", "5", "6", "7", "0", "0", "@c.us">>

\* C14: every dispatch that reaches the send step sends to the operator's
\* address, and to the customer's only if the phone was normalized.
C14_OperatorAlwaysAddressed ==
    [][\A ph \in FewPhones, od \in FewDetails :
          (SendOrder(ph, od) /\ orders' # orders) =>
              /\ \E o \in BagToSet(orders') : o.recipient = OperatorAddress
              /\ \A o \in BagToSet(orders') :
                     o.recipient # OperatorAddress =>
                         /\ formatPhoneNumber(ph) # NoAddress
                         /\ o.recipient = formatPhoneNumber(o.customerPhone)]_vars

\* the digits of a text, in their order
RECURSIVE DigitsOf(_)
DigitsOf(text) ==
    IF text = << >>
    THEN << >>
    ELSE IF Head(text) \in Digits
    THEN <<Head(text)>> \o DigitsOf(Tail(text))
    ELSE DigitsOf(Tail(text))

\* C15: formatPhoneNumber gives none for the empty text; for any other text
\* it gives the text's digits, with one leading 0 replaced by 256 and nothing
\* else changed, followed by the channel suffix; "0775224728" gives
\* "256775224728@c.us".
C15_FormatPhoneNumber ==
    LET number == formatted[1]
        address == formatted[2]
        kept == DigitsOf(number)
    IN  /\ number = << >> => address = NoAddress
        /\ number # << >> =>
               /\ address # NoAddress
               /\ address[Len(address)] = "@c.us"
               /\ SubSeq(address, 1, Len(address) - 1) =
                      IF kept # << >> /\ kept[1] = "0"
                      THEN <<"2", "5", "6">> \o SubSeq(kept, 2, Len(kept))
                      ELSE kept
        /\ number = LocalNumber =>
               address = <<"2", "5", "6", "7", "7", "5", "2", "2", "4", "7",
                           "2", "8", "@c.us">>

\* formatPhoneNumber has been called on a text with a non-digit and two
\* leading zeros, of which one is left
C15_Witness ==
    /\ formatted[1] = <<"+", "0", "0", "7">>
    /\ formatted[2] = <<"2", "5", "6", "0", "7", "@c.us">>

\* a phone without any digit, the empty one included
NoDigits(text) == DigitsOf(text) = << >>

\* C16: a phone without digits gives no recipient: formatPhoneNumber returns
\* none for it, no send is addressed to anything derived from it, and the
\* request does not end in an error.
C16_InvalidPhoneNoRecipient ==
    /\ [][\A ph \in Phones, od \in OrderDetails :
             (SendOrder(ph, od) /\ NoDigits(ph)) =>
                 \A o \in BagToSet(orders' (-) orders) :
                     o.recipient = NoAddress /\ o.pc # "send"]_vars
    /\ [][\A o \in OrderStates :
             (SendRejected(o) /\ NoDigits(o.customerPhone)) =>
                 response'.status # 500]_vars

C18_NoStoreNoSession ==
    /\ [](~MONGODB_URI =>
             /\ client = NULL /\ \A h \in Handles : handles[h] = "gone"
             /\ ~isInitializing /\ ~isReady /\ ~Ready
             /\ procs = EmptyBag /\ timers = EmptyBag /\ mongoose = 0
             /\ orders = EmptyBag
             /\ response = NoResponse \/ response.status = 503)
    /\ [][\A ph \in FewPhones, od \in FewDetails :
             (SendOrder(ph, od) /\ ~MONGODB_URI) =>
                 response' = Response(503, ph)]_vars
    /\ [][(Start /\ ~MONGODB_URI) =>
             UNCHANGED <<client, latestQR, isInitializing, isReady, handles,
                         procs, timers, mongoose, sessionDir>>]_vars

\* the server runs without MONGODB_URI and has answered a valid order 503
C18_Witness ==
    /\ ~MONGODB_URI
    /\ process = "running"
    /\ response = Response(503, LocalNumber)

\* C19: no fault that reaches the process handlers ends the process.
C19_ProcessStaysAlive == process # "exited"

\* a message with one of the known safe patterns
SafeMessage(message) ==
    \/ "Execution context was destroyed" \in message
    \/ "Target closed" \in message
    \/ "Session closed" \in message
    \/ "Protocol error" \in message
    \/ {"ENOENT", ".wwebjs_auth"} \subseteq message

\* C20: on both channels a fault whose message has a known safe pattern is
\* dropped with a warning, and every other fault is logged as an error.
C20_SafePatternsOnBothChannels ==
    console # NoLog =>
        console.level = IF /\ console.fault.kind = "error"
                           /\ SafeMessage(console.fault.message)
                        THEN "warn"
                        ELSE "error"

\* the last step has dispatched a valid order: to a number with digits, with
\* at least one item
ValidDispatch ==
    /\ sent # NoSend
    /\ Len(sent.recipient) > 1
    /\ sent.message.body.items # << >>

\* the page sizes the dispatch claims are tried with (the design's default
\* is 10)
PageSizes == {1, 2, 10}

\* the item groups a dispatch sends, one per message it sends: server.js
\* makes one sendMessage call per request (line 361), and its text carries
\* the whole item list (line 359)
PagesSent == <<sent.message.body.items>>

\* the pages one after the other
RECURSIVE Concat(_)
Concat(pages) ==
    IF pages = << >> THEN << >> ELSE Head(pages) \o Concat(Tail(pages))

\* ceil(n / p)
CeilDiv(n, p) == (n + p - 1) \div p

\* C21: a dispatch of N >= 1 items with page size P sends them as exactly
\* ceil(N/P) pages of at most P items each, which put together in their order
\* give the item list back.
C21_PagesPartitionItems ==
    ValidDispatch =>
        \A P \in PageSizes :
            LET items == sent.message.body.items
            IN  /\ Len(PagesSent) = CeilDiv(Len(items), P)
                /\ \A i \in 1..Len(PagesSent) : Len(PagesSent[i]) <= P
                /\ Concat(PagesSent) = items

\* the total a message shows: server.js computes none, so it is the one
\* orderDetails came with, if any (a set, as in Details)
TotalSent == sent.message.body.total

\* the sum of qty times unit price over the items
RECURSIVE SumOf(_)
SumOf(items) ==
    IF items = << >>
    THEN 0
    ELSE Head(items).qty * Head(items).price + SumOf(Tail(items))

\* C22: the grand total a dispatch shows is the total the order supplies,
\* unchanged, and the sum of qty times unit price over its items when it
\* supplies none.
C22_GrandTotal ==
    ValidDispatch =>
        LET order == sent.message.body
        IN  TotalSent = IF order.total # {}
                        THEN order.total
                        ELSE {SumOf(order.items)}

\* C24: when destroy() of the old handle is rejected, the execution goes on
\* as if it had not been: the global no longer refers to the old handle but
\* to a newly constructed one, which is started, the session directory is
\* removed, no other handle changes, and the catch block is not entered (the
\* guard stays set, nothing sleeps).
C24_DestroyFailureSwallowed ==
    [][\A p \in ProcStates :
          DestroyDone(p, FALSE) =>
              /\ client' # NULL
              /\ handles[client'] = "gone" /\ handles'[client'] = "live"
              /\ \A h \in Handles \ {client'} : handles'[h] = handles[h]
              /\ ~sessionDir'
              /\ isInitializing' = isInitializing
              /\ procs' = Put(Take(procs, p), Proc("initialize", NULL))]_vars

\* destroy() of the first handle was rejected: that handle is still there,
\* nothing awaits its destroy(), and the setup has constructed a second one
C24_Witness ==
    \E h \in Handles :
        /\ handles[h] = "closing"
        /\ ~BagIn(Proc("destroy", h), procs)
        /\ client \notin {NULL, h} /\ handles[client] = "live"
        /\ isInitializing
        /\ BagIn(Proc("initialize", NULL), procs)

\* a sendMessage call to a customer's number
CustomerSend(call) == call # NoSend /\ Len(call.recipient) > 1

\* C25: the sendMessage calls of requests that are in flight together are a
\* full inter-send delay apart; in particular no request makes its call in
\* the step right after another request's call, when no time has passed and
\* that request is still waiting for its own send.
C25_SendsSerialized ==
    [][(SendStep /\ CustomerSend(sent')) => ~CustomerSend(sent)]_vars

\* C26: a call of initializeClient leaves the handle of a Ready session alone
\* when that handle has announced nothing since its 'ready' event and no
\* 'disconnected' or 'auth_failure' event has cleared isReady since.
C26_ReadySessionNotTornDown ==
    [][(CallStep /\ Ready /\ phase = "ready") =>
          /\ client' = client
          /\ handles'[client] = handles[client]]_vars

\* a handle that initializeClient has replaced: a newer one is stored in
\* client
Superseded(h) == client # NULL /\ h # client

\* a step that is an event of handle h reaching one of its listeners
EventOf(h) ==
    \/ OnQr(h) \/ OnAuthenticated(h) \/ OnReady(h) \/ OnAuthFailure(h)
    \/ \E reason \in Reasons : OnDisconnected(h, reason)

\* C27: an event of a superseded handle leaves isReady, isInitializing and
\* latestQR as they are (stated for a handle that has been replaced; one
\* that is only being destroyed is still the one stored in client).
C27_SupersededEventsIgnored ==
    [][\A h \in Handles :
          (EventOf(h) /\ Superseded(h)) =>
              UNCHANGED <<isReady, isInitializing, latestQR>>]_vars

\* C28: isReady and isInitializing are never both true.
C28_NotReadyWhileInitializing == ~(isReady /\ isInitializing)

\* C29: whenever isReady is true latestQR is null: a 'qr' event stores its
\* code and clears isReady, a 'ready' event that sets isReady clears the
\* code, and GET /qr of a session with isReady true answers with the
\* connected page.
C29_ReadyMeansNoChallenge ==
    /\ [](isReady => latestQR = NULL)
    /\ [][\A h \in Handles :
             /\ OnQr(h) => (latestQR' # NULL /\ ~isReady')
             /\ (OnReady(h) /\ isReady') => latestQR' = NULL]_vars
    /\ [][(GetQr /\ isReady) => response' = Page(200, "connected", NULL)]_vars

\* the current handle had announced 'ready' and has since issued a code:
\* isReady is cleared, and GET /qr has answered with the challenge page
C29_Witness ==
    /\ clientInfo /\ phase = "awaitingScan"
    /\ latestQR = QrCode /\ ~isReady
    /\ response = Page(200, "challenge", QrCode)

====
